---- MODULE Spec2Model ----
(***************************************************************************)
(* Model of the TCP contact of caldera (app/contacts/contact_tcp.py):      *)
(* the session registry of TcpSessionHandler, its accept / refresh / send  *)
(* coroutines and the beacon loop Contact.operation_loop.                  *)
(*                                                                         *)
(* All coroutines run on one asyncio event loop, so a step of the model is *)
(* the code between two suspension points (an await that can yield).       *)
(***************************************************************************)
EXTENDS Integers, Sequences, FiniteSets, TLC

\* ------------------------------------------------------------------ bounds
MaxConns == 1      \* connections the listener accepts (one accept task each)
MaxIds   == 1      \* distinct values generate_number returns
MaxInstr == 2      \* instructions one heartbeat fetch can return
MaxAgents == 2     \* agents of an operation
MaxOrder  == 3     \* length of adversary.atomic_ordering
MaxParts  == 3     \* pieces a parsed blob is made of
MaxPlanners == 2   \* planners in data_svc.ram['planners']
MaxRequests == 2   \* delete requests handled one after the other
MaxLinks  == 2     \* links one operation applies

Conns      == 1..MaxConns
SessionIds == 1..MaxIds

\* Tasks that call send: the beacon loop, one accept task per connection and
\* any other caller of the public method TcpSessionHandler.send.
LoopTask  == 0
Tasks     == 0..MaxConns
ExtCaller == MaxConns + 1
Callers   == 0..(MaxConns + 1)

\* Session ids a caller of send can pass: those generate_number returns and
\* one (0) that it never returned.
CallIds   == 0..MaxIds

NoWriter  == 0
Paws      == {"paw"}

\* ------------------------------------------------------------------ JSON
\* A text on the wire is well-formed JSON carrying an object, or it is not.
json_dumps(obj) == [wf |-> TRUE, obj |-> obj]

json_loads(text) ==
  IF text.wf THEN [exc |-> "", val |-> text.obj]
             ELSE [exc |-> "JSONDecodeError", val |-> [none |-> 0]]

NotJson == [wf |-> FALSE, obj |-> [none |-> 0]]

\* ------------------------------------------------------------- handshake
\* What the peer sends as its first line.
FrameKinds == {"garbage", "no_executors", "profile"}

FrameText(kind) ==
  CASE kind = "profile"      -> json_dumps([executors |-> <<"psh", "cmd">>, contact |-> "tcp"])
    [] kind = "no_executors" -> json_dumps([contact |-> "tcp"])
    [] OTHER                 -> NotJson

\* A _handshake that answers an undecodable line with an empty profile.
handshake_lenient(kind) ==
  IF FrameText(kind).wf THEN json_loads(FrameText(kind))
  ELSE [exc |-> "", val |-> [executors |-> <<>>, contact |-> "tcp"]]

\* _handshake: json.loads of the stripped line.
handshake(kind) == json_loads(FrameText(kind))

\* ------------------------------------------------------------------ send
\* What the peer does after it received a command line.
ReplyKinds == {"frame", "frame_time", "garbage", "silent"}

ReplyText(kind) ==
  CASE kind = "frame"      -> json_dumps([status |-> 0, pwd |-> "C:\\>", response |-> "nt\\system"])
    [] kind = "frame_time" -> json_dumps([status |-> 0, pwd |-> "C:\\>", response |-> "nt\\system",
                                          agent_reported_time |-> "t1"])
    [] OTHER               -> NotJson

Result(status, pwd, response, time) ==
  [raised |-> FALSE, status |-> status, pwd |-> pwd, response |-> response, time |-> time]

Raised(exc) ==
  [raised |-> TRUE, status |-> -1, pwd |-> "", response |-> exc, time |-> ""]

NoResult == Result(-1, "", "", "")

\* The reader _attempt_connection reads from: the placeholder `...`.
reader == "Ellipsis"

\* asyncio.wait_for(reader.read(4096), timeout) on that reader.
reader_read(rd, reply) ==
  IF rd = "Ellipsis" THEN [exc |-> "AttributeError", data |-> NotJson]
  ELSE IF reply = "silent" THEN [exc |-> "TimeoutError", data |-> NotJson]
       ELSE [exc |-> "", data |-> ReplyText(reply)]

\* _attempt_connection: the text handed back to send.
attempt_connection(reply) ==
  LET r == reader_read(reader, reply) IN
  CASE r.exc = ""             -> r.data
    [] r.exc = "TimeoutError" -> json_dumps([status |-> 1, pwd |-> "~$ ", response |-> "Timeout"])
    [] OTHER                  -> json_dumps([status |-> 1, pwd |-> "~$ ", response |-> r.exc])

\* A handler that catches socket errors only.
send_except_socket(exc) ==
  IF exc = "ConnectionResetError" THEN Result(1, "~$ ", exc, "") ELSE Raised(exc)

\* send's handler `except Exception as e`.
send_except(exc) == Result(1, "~$ ", exc, "")

\* send, from the response text on: json.loads and the returned tuple.
send_decode(text) ==
  LET r == json_loads(text) IN
  IF r.exc # "" THEN send_except(r.exc)
  ELSE IF ~({"status", "pwd", "response"} \subseteq DOMAIN r.val) THEN send_except("KeyError")
  ELSE Result(r.val.status, r.val.pwd, r.val.response,
              IF "agent_reported_time" \in DOMAIN r.val THEN r.val.agent_reported_time ELSE "")

\* What went wrong between the command line and the returned tuple, if
\* anything: the exception of the read (which _attempt_connection turns into
\* a status 1 response) or of the decoding.
send_failure(reply) ==
  LET r == reader_read(reader, reply) IN
  IF r.exc # "" THEN r.exc
  ELSE LET j == json_loads(r.data) IN
       IF j.exc # "" THEN j.exc
       ELSE IF ~({"status", "pwd", "response"} \subseteq DOMAIN j.val) THEN "KeyError"
       ELSE ""

\* --------------------------------------------------------------- registry
HasId(ss, sid) == \E i \in 1..Len(ss) : ss[i].id = sid

\* A lookup that falls back to the first session when the id is unknown.
next_writer_first(ss, sid) ==
  IF HasId(ss, sid)
  THEN ss[CHOOSE i \in 1..Len(ss) : ss[i].id = sid /\ \A j \in 1..(i-1) : ss[j].id # sid].writer
  ELSE IF Len(ss) > 0 THEN ss[1].writer ELSE NoWriter

\* next(i.writer for i in self.sessions if i.id == int(session_id))
next_writer(ss, sid) ==
  IF HasId(ss, sid)
  THEN ss[CHOOSE i \in 1..Len(ss) : ss[i].id = sid /\ \A j \in 1..(i-1) : ss[j].id # sid].writer
  ELSE NoWriter

\* del self.sessions[index], index counted from 0.
del(ss, index) == SubSeq(ss, 1, index) \o SubSeq(ss, index + 2, Len(ss))

\* self.sessions.append(new_session)
append(ss, s) == Append(ss, s)

\* A send that drops the session when it failed.
send_registry_drop(ss, sid, res) ==
  IF res.status = 1 THEN SelectSeq(ss, LAMBDA x : x.id # sid) ELSE ss

\* The registry after a send on session sid returned res: send never touches
\* self.sessions.
send_registry(ss, sid, res) == ss

\* A sweep that moves on after a removal as after a probe that was written.
RECURSIVE refresh_from_skip(_, _, _)
refresh_from_skip(ss, index, up) ==
  IF ~(index < Len(ss)) THEN ss
  ELSE IF ~up[ss[index + 1].writer]
       THEN refresh_from_skip(del(ss, index), index + 1, up)
       ELSE refresh_from_skip(ss, index + 1, up)

\* refresh: the sweep over the registry; up[c] says whether a write to
\* connection c succeeds (otherwise it fails with socket.error).
RECURSIVE refresh_from(_, _, _)
refresh_from(ss, index, up) ==
  IF ~(index < Len(ss)) THEN ss
  ELSE IF ~up[ss[index + 1].writer]
       THEN refresh_from(del(ss, index), index, up)
       ELSE refresh_from(ss, index + 1, up)

refresh(ss, up) == refresh_from(ss, 0, up)

\* The entries the sweep wrote its probe to (line 63), in the order of the
\* writes.
RECURSIVE refresh_probes(_, _, _)
refresh_probes(ss, index, up) ==
  IF ~(index < Len(ss)) THEN <<>>
  ELSE <<ss[index + 1]>> \o (IF ~up[ss[index + 1].writer]
                              THEN refresh_probes(del(ss, index), index, up)
                              ELSE refresh_probes(ss, index + 1, up))

Count(ss, c) == Cardinality({i \in 1..Len(ss) : ss[i].writer = c})

IsPrefix(s, t) == Len(s) <= Len(t) /\ SubSeq(t, 1, Len(s)) = s

\* ------------------------------------------------------------------ state
VARIABLES
  sessions,   \* TcpSessionHandler.sessions: the registry, a list of Session
  connUp,     \* connUp[c]: writes to connection c still succeed
  acc,        \* acc[c]: the accept task of connection c
  snd,        \* snd[k]: the send call task k is in, if any
  loop,       \* Contact.operation_loop
  ev,         \* the send call that returned in the last step, if one did
  plan,       \* LogicalPlanner and the operation it plans, if one is running
  prs,        \* the IP Parser and the parses a caller made with it, if any
  papi        \* PlannerApi.delete_planner, data_svc.ram['planners'] and the disk

vars == <<sessions, connUp, acc, snd, loop, ev, plan, prs, papi>>

\* Session(id, paw, writer); the Session object of connection c is the one
\* whose writer is c.
Session(id, paw, c) == [id |-> id, paw |-> paw, writer |-> c]
NoSession == Session(0, "", NoWriter)

Idle == [pc |-> "idle", sid |-> 0, w |-> NoWriter, exc |-> "", nw |-> 0, reg |-> FALSE]

\* base64 of a string (BaseWorld.encode_string).
encode_string(str) == <<"b64", str>>

NoBeacon == [id |-> 0, status |-> -1, output |-> encode_string("")]

NoEv == [op |-> "none", who |-> LoopTask, sid |-> 0, res |-> NoResult, reply |-> "none",
         exc |-> "", nw |-> 0, reg |-> FALSE, beacon |-> NoBeacon]

\* A beacon that reports the prompt instead of the response.
beacon_pwd(id, res) == [id |-> id, status |-> res.status, output |-> encode_string(res.pwd)]

\* The result the loop reports for instruction id (lines 40-41).
beacon(id, res) == [id |-> id, status |-> res.status, output |-> encode_string(res.response)]

\* The beacon loop outside the for statement of line 30.  Inside it:
\*   it, cur     the list iterator's index and the session it returned,
\*   left        the instructions fetched for cur that are not yet taken,
\*   sent, rep   how often the instruction in hand was passed to send and
\*               had a result reported,
\*   visited     the sessions the iterator returned in this cycle.
LoopRest(pc) ==
  [pc |-> pc, it |-> 0, cur |-> NoSession, left |-> 0, sent |-> 0, rep |-> 0, visited |-> <<>>]

\* instruction.id of the instruction in hand: the instructions of one fetch are
\* told apart by how many of them follow.
InstrId(lp) == lp.left + 1

\* ---------------------------------------------------------------- planner
\* Ability ids; "None" is Python's None where a link or a bucket name goes.
Abilities == {"A", "B", "C"}

\* operation.agents, each with a paw of its own, and the values of
\* adversary.atomic_ordering (position p of the code is index p + 1).
Agents    == 1..MaxAgents
Orderings == UNION {[1..n -> Abilities] : n \in 0..MaxOrder}

\* dict.get(k, default), dict.pop(k, None) and d[k] = v on agent_steps.
get(d, k, default) == IF k \in DOMAIN d THEN d[k] ELSE default
pop(d, k) == [x \in DOMAIN d \ {k} |-> d[x]]
put(d, k, v) == [x \in DOMAIN d \cup {k} |-> IF x = k THEN v ELSE d[x]]

\* _get_next_atomic_link (lines 64-81) on the candidate ability ids cands:
\* the link it returns, the position it stopped at, agent_steps as its skips
\* leave it, and the values those skips wrote.
RECURSIVE get_next_atomic_link(_, _, _, _, _, _)

\* A selection that gives up at the first position that is no candidate.
get_next_atomic_link_noskip(ordering, cands, steps, agent, step, writes) ==
  IF step < Len(ordering) /\ ordering[step + 1] \in cands
  THEN [link |-> ordering[step + 1], pos |-> step, steps |-> steps, writes |-> writes]
  ELSE [link |-> "None", pos |-> step, steps |-> steps, writes |-> writes]

\* A selection that takes the ability at the cursor, candidate or not.
get_next_atomic_link_any(ordering, cands, steps, agent, step, writes) ==
  IF step >= Len(ordering)
  THEN [link |-> "None", pos |-> step, steps |-> steps, writes |-> writes]
  ELSE [link |-> ordering[step + 1], pos |-> step, steps |-> steps, writes |-> writes]

get_next_atomic_link(ordering, cands, steps, agent, step, writes) ==
  IF step >= Len(ordering)
  THEN [link |-> "None", pos |-> step, steps |-> steps, writes |-> writes]
  ELSE IF ordering[step + 1] \in cands
       THEN [link |-> ordering[step + 1], pos |-> step, steps |-> steps, writes |-> writes]
       ELSE get_next_atomic_link(ordering, cands, put(steps, agent, step + 1), agent,
                                 step + 1, Append(writes, step + 1))

\* The errors a collaborator of the planner raises.
Errors == {"ConnectionError", "KeyError"}

\* How often ability id ab is in the ordering.
Occurrences(ordering, ab) == Cardinality({p \in 1..Len(ordering) : ordering[p] = ab})

\* LogicalPlanner.__init__ (lines 5-14) for an operation of n agents.  Beside
\* the object's fields and the locals of pentatomic (i: the agent the for
\* statement is at; step, link, pos: the selection being applied):
\*   nlinks     the links applied so far (the next link id),
\*   applied    per agent and ability id, the links applied,
\*   exhausted  the agents for which the selection returned None,
\*   seen       per agent, the last value read from or written to its cursor,
\*   trace      the values the last step read from and wrote to a cursor,
\*   cands      the candidate ability ids get_links returned in the last step,
\*   base       the links applied before the bucket was entered,
\*   waited     the link ids passed to wait_for_links_completion so far,
\*   thrown     the error a collaborator raised,
\*   err        the error the bucket ended with,
\*   iters      the bucket invocations so far,
\*   by         the agents the links of links_to_use were applied for.
Planner(ordering, n) ==
  [pc |-> "ready", ordering |-> ordering, nagents |-> n, stopping_condition_met |-> FALSE,
   next_bucket |-> "pentatomic", agent_steps |-> [a \in 1..n |-> 0],
   i |-> 0, step |-> 0, link |-> "None", pos |-> 0, links_to_use |-> <<>>,
   nlinks |-> 0, applied |-> [a \in 1..n |-> [ab \in Abilities |-> 0]],
   exhausted |-> {}, seen |-> [a \in 1..n |-> 0], trace |-> <<>>,
   cands |-> {}, base |-> 0, waited |-> <<>>, thrown |-> "", err |-> "",
   iters |-> 0, by |-> <<>>]

NoPlanner == [Planner(<<>>, 0) EXCEPT !.pc = "none", !.next_bucket = "None"]

\* ----------------------------------------------------------------- parser
\* A blob is a sequence of characters.  The blobs parsed are made of at most
\* MaxParts of these pieces put end to end, so that tokens run into each other.
Pieces ==
  {<<"0", ".", "0", ".", "0", ".", "0">>,
   <<"1", "2", "7", ".", "0", ".", "0", ".", "1">>,
   <<"2", "5", "5", ".", "2", "5", "5", ".", "0", ".", "0">>,
   <<"1", "0", ".", "0", ".", "0", ".", "5">>,
   <<"2", "5", "6", ".", "1", ".", "1", ".", "1">>,
   <<"0", "1", ".", "2", ".", "3", ".", "4">>,
   <<"1", ".", "2", ".", "3">>,
   <<"1">>,
   <<".">>,
   <<" ">>,
   <<"a">>}

RECURSIVE BlobsOf(_)
BlobsOf(n) ==
  IF n = 0 THEN {<<>>} ELSE {<<>>} \cup {x \o b : x \in Pieces, b \in BlobsOf(n - 1)}

Blobs == BlobsOf(MaxParts)

DigitVal == ("0" :> 0) @@ ("1" :> 1) @@ ("2" :> 2) @@ ("3" :> 3) @@ ("4" :> 4) @@
            ("5" :> 5) @@ ("6" :> 6) @@ ("7" :> 7) @@ ("8" :> 8) @@ ("9" :> 9)

\* \d and \w of the re module on the characters of the blobs.
IsDigit(ch) == ch \in DOMAIN DigitVal
IsWord(ch)  == IsDigit(ch) \/ ch \in {"a", "_"}

\* \b before index i: exactly one of blob[i - 1] and blob[i] is a word character.
Boundary(blob, i) ==
  (i > 1 /\ i - 1 <= Len(blob) /\ IsWord(blob[i - 1])) # (i >= 1 /\ i <= Len(blob) /\ IsWord(blob[i]))

\* The digits from index i on, counted up to four.
RECURSIVE DigitRun(_, _, _)
DigitRun(blob, i, n) ==
  IF n < 4 /\ i + n <= Len(blob) /\ IsDigit(blob[i + n]) THEN DigitRun(blob, i, n + 1) ELSE n

\* \d{1,3} at index i followed by ch (a dot, or "" for the closing \b): the
\* index after the group, or 0.  What follows is no digit, so whatever the
\* backtracking tries, the group can only be the whole run of digits.
group(blob, i, ch) ==
  LET n == DigitRun(blob, i, 0) IN
  IF i = 0 \/ n < 1 \/ n > 3 THEN 0
  ELSE IF ch = "" THEN (IF Boundary(blob, i + n) THEN i + n ELSE 0)
  ELSE IF i + n <= Len(blob) /\ blob[i + n] = ch THEN i + n + 1 ELSE 0

\* The pattern of line 16 matched at index i: the index after the match, or 0.
match_at(blob, i) ==
  IF Boundary(blob, i)
  THEN group(blob, group(blob, group(blob, group(blob, i, "."), "."), "."), "")
  ELSE 0

\* re.findall(pattern, blob): the matches from left to right, none overlapping.
RECURSIVE findall(_, _)
findall(blob, i) ==
  IF i > Len(blob) THEN <<>>
  ELSE LET e == match_at(blob, i) IN
       IF e # 0 THEN <<SubSeq(blob, i, e - 1)>> \o findall(blob, e)
       ELSE findall(blob, i + 1)

\* The decimal number the digits q write.
RECURSIVE NatOf(_)
NatOf(q) == IF q = <<>> THEN 0 ELSE 10 * NatOf(SubSeq(q, 1, Len(q) - 1)) + DigitVal[q[Len(q)]]

\* raw.split('.')
RECURSIVE split(_, _)
split(raw, part) ==
  IF raw = <<>> THEN <<part>>
  ELSE IF Head(raw) = "." THEN <<part>> \o split(Tail(raw), <<>>)
  ELSE split(Tail(raw), Append(part, Head(raw)))

\* ipaddress.ip_address(raw): the exception it raises, or "".  A Python that
\* is strict (3.9.5 and later) refuses an octet with a leading zero.
ip_address(raw, strict) ==
  LET octets == split(raw, <<>>) IN
  IF /\ Len(octets) = 4
     /\ \A k \in 1..4 :
          /\ octets[k] # <<>> /\ Len(octets[k]) <= 3
          /\ \A j \in 1..Len(octets[k]) : IsDigit(octets[k][j])
          /\ ~(strict /\ Len(octets[k]) > 1 /\ octets[k][1] = "0")
          /\ NatOf(octets[k]) <= 255
  THEN "" ELSE "ValueError"

Denylist == {<<"0", ".", "0", ".", "0", ".", "0">>, <<"1", "2", "7", ".", "0", ".", "0", ".", "1">>, <<"2", "5", "5", ".", "2", "5", "5", ".", "0", ".", "0">>}

\* A check that has no denylist.
is_valid_ip_nodeny(raw, strict) ==
  [raised |-> "", val |-> ip_address(raw, strict) = ""]

\* A check that lets the ValueError of ip_address out.
is_valid_ip_uncaught(raw, strict) ==
  IF raw \in Denylist THEN [raised |-> "", val |-> FALSE]
  ELSE [raised |-> ip_address(raw, strict), val |-> ip_address(raw, strict) = ""]

\* Parser._is_valid_ip (lines 21-29): what it returns, and the exception that
\* leaves it, if any.
is_valid_ip(raw, strict) ==
  IF raw \in Denylist THEN [raised |-> "", val |-> FALSE]
  ELSE [raised |-> "", val |-> ip_address(raw, strict) = ""]

\* Fact.load(dict(trait=..., value=...)) (line 18).
Fact(trait, value) == [trait |-> trait, value |-> value]

\* A generator that yields an address once only.
RECURSIVE parse_each_unique(_, _, _)
parse_each_unique(self, ips, facts) ==
  IF ips = <<>> THEN [facts |-> facts, raised |-> ""]
  ELSE LET v == is_valid_ip(Head(ips), self.strict)
           f == Fact(self.trait, Head(ips)) IN
       parse_each_unique(self, Tail(ips),
                         IF v.val /\ \A k \in 1..Len(facts) : facts[k] # f
                         THEN Append(facts, f) ELSE facts)

\* The generator of lines 16-18 run to its end over the matches ips: the
\* Facts it yields and the exception that ends it, if any.
RECURSIVE parse_each(_, _, _)
parse_each(self, ips, facts) ==
  IF ips = <<>> THEN [facts |-> facts, raised |-> ""]
  ELSE LET v == is_valid_ip(Head(ips), self.strict) IN
       IF v.raised # "" THEN [facts |-> facts, raised |-> v.raised]
       ELSE parse_each(self, Tail(ips),
                       IF v.val THEN Append(facts, Fact(self.trait, Head(ips))) ELSE facts)

\* A parser that keeps the last address it yielded as its trait.
parse_keeping(self, blob) ==
  LET r == parse_each(self, findall(blob, 1), <<>>) IN
  [facts |-> r.facts, raised |-> r.raised,
   self |-> IF r.facts = <<>> THEN self ELSE [self EXCEPT !.trait = "host.ip.last"]]

\* Parser.parse (lines 15-18) consumed to its end: the Facts, the exception,
\* and the parser object afterwards.
parse(self, blob) ==
  LET r == parse_each(self, findall(blob, 1), <<>>) IN
  [facts |-> r.facts, raised |-> r.raised, self |-> self]

\* Parser.__init__ (lines 12-13), run by a Python that is strict or not, and
\* what a caller of parse has seen:
\*   blob, out, raised   the first blob parsed and what its parse gave,
\*   n                   the parses made,
\*   out2, raised2       what a later parse of the same blob gave.
Parser(strict) ==
  [pc |-> "new", self |-> [trait |-> "host.ip.address", strict |-> strict],
   blob |-> <<>>, out |-> <<>>, raised |-> "", n |-> 0, out2 |-> <<>>, raised2 |-> ""]

NoParser == [Parser(TRUE) EXCEPT !.pc = "none"]

\* ------------------------------------------------------------ planner API
\* planner_id values: those of the planners, one that no planner has, and 0
\* for an empty id.
PlannerIds == 1..MaxPlanners
RequestIds == 0..(MaxPlanners + 1)

\* The lists ram['planners'] can be: planners of distinct ids, in any order.
PlannerLists ==
  {q \in UNION {[1..n -> PlannerIds] : n \in 0..MaxPlanners} :
     \A i, j \in 1..Len(q) : i # j => q[i] # q[j]}

\* next((p for p in ram['planners'] if p.planner_id == planner_id), None):
\* the first planner of that id, or 0 for None.
next_planner(ram, id) ==
  IF \E i \in 1..Len(ram) : ram[i] = id
  THEN ram[CHOOSE i \in 1..Len(ram) : ram[i] = id /\ \A j \in 1..(i - 1) : ram[j] # id]
  ELSE 0

\* ram['planners'].remove(planner): the first entry equal to planner goes.
remove(ram, planner) ==
  LET i == CHOOSE k \in 1..Len(ram) : ram[k] = planner /\ \A j \in 1..(k - 1) : ram[j] # planner IN
  SubSeq(ram, 1, i - 1) \o SubSeq(ram, i + 1, Len(ram))

\* What can fail between line 143 and the response: file_svc.find_file_path,
\* reading the YAML file, os.remove of the module file, os.remove of the YAML
\* file, data_svc.save_state.
FileErrors == {"find_file_path", "read", "remove_module", "remove_file"}

\* The API with the planners ram and the files the disk holds:
\*   ram         data_svc.ram['planners'], by planner_id,
\*   yml, mods   the planners whose YAML file and module file are on disk,
\*   id, planner the request's planner_id and the planner found for it,
\*   ram0        ram when the request came in,
\*   resp        the response the request ended with,
\*   failed      the call that raised,
\*   n           the requests handled.
Api(ram, yml, mods) ==
  [pc |-> "idle", ram |-> ram, yml |-> yml, mods |-> mods, id |-> 0, planner |-> 0,
   ram0 |-> ram, resp |-> "", failed |-> "", n |-> 0]

NoApi == [Api(<<>>, {}, {}) EXCEPT !.pc = "none"]

\* The handler of lines 232-237: any exception that is no HTTP exception
\* becomes an internal server error.
api_error(a, what) == [a EXCEPT !.pc = "done", !.resp = "HTTPInternalServerError", !.failed = what]

\* The contact as Contact.start leaves it.
InitContact ==
  /\ sessions = <<>>
  /\ connUp = [c \in Conns |-> TRUE]
  /\ acc = [c \in Conns |-> [pc |-> "idle", frame |-> "none", s |-> NoSession,
                             hb |-> 0, created |-> 0, regs |-> 0, sends |-> 0]]
  /\ snd = [k \in Callers |-> Idle]
  /\ loop = LoopRest("start")
  /\ ev = NoEv

\* The contact with no operation planned.
Init == InitContact /\ plan = NoPlanner /\ prs = NoParser /\ papi = NoApi

\* ------------------------------------------------------------------- send
\* send up to its first suspension: the lookup of the writer, the probe byte
\* and the awaits of drain and of the settle delay (lines 102-105).  A failed
\* lookup raises StopIteration inside the try.
send_begin(ss, sid) ==
  LET w == next_writer(ss, sid) IN
  IF w = NoWriter
  THEN [pc |-> "except", sid |-> sid, w |-> NoWriter, exc |-> "StopIteration",
        nw |-> 0, reg |-> HasId(ss, sid)]
  ELSE [pc |-> "settle", sid |-> sid, w |-> w, exc |-> "", nw |-> 1, reg |-> HasId(ss, sid)]

\* A send that goes on to the response without writing its command line.
send_command_skip(s) == [s EXCEPT !.pc = "drain2"]

\* The settle delay elapsed: the command line is written and its drain is
\* awaited (lines 106-107).
send_command(s) == [s EXCEPT !.pc = "drain2", !.nw = @ + 1]

\* A send is in flight from its first probe write to its return.
InFlight(k) == snd[k].pc \in {"settle", "drain2"}

\* -------------------------------------------------------------- beacon loop
\* An iterator that steps over the element after the one it returned.
loop_advance_skip(ss, lp) ==
  IF lp.it + 1 < Len(ss)
  THEN [lp EXCEPT !.cur = ss[lp.it + 2], !.it = @ + 2, !.pc = "fetch", !.left = 0,
                  !.sent = 0, !.rep = 0, !.visited = Append(@, ss[lp.it + 2])]
  ELSE LoopRest("sleep20")

\* The for statement over self.tcp_handler.sessions takes its next element
\* (a list iterator: an index into the live list) and awaits the heartbeat.
loop_advance(ss, lp) ==
  IF lp.it < Len(ss)
  THEN [lp EXCEPT !.cur = ss[lp.it + 1], !.it = @ + 1, !.pc = "fetch", !.left = 0,
                  !.sent = 0, !.rep = 0, !.visited = Append(@, ss[lp.it + 1])]
  ELSE LoopRest("sleep20")

\* The for statement over the instructions of the current session: the next
\* instruction is sent, or the session is done.
loop_continue(ss, lp) ==
  IF lp.left > 0
  THEN [lp |-> [lp EXCEPT !.left = @ - 1, !.pc = "send", !.sent = 1, !.rep = 0],
        s  |-> send_begin(ss, lp.cur.id)]
  ELSE [lp |-> loop_advance(ss, lp), s |-> Idle]

\* A handler around the whole for statement: the session's other instructions
\* are dropped.
loop_except_break(ss, lp) == [lp |-> loop_advance(ss, lp), s |-> Idle]

\* A handler that sends the failed instruction again.
loop_except_retry(ss, lp) ==
  [lp |-> [lp EXCEPT !.pc = "send", !.sent = @ + 1], s |-> send_begin(ss, lp.cur.id)]

\* The handler of line 44: the exception is logged and the for statement goes
\* on with the next instruction.
loop_except(ss, lp) == loop_continue(ss, lp)

\* A loop that does not sleep between instructions.
loop_reported_nosleep(ss, lp) == loop_continue(ss, lp)

\* The report returned: asyncio.sleep(instruction.sleep) is awaited (line 43).
loop_reported(ss, lp) == [lp |-> [lp EXCEPT !.pc = "isleep"], s |-> Idle]

\* ----------------------------------------------------------------- accept
\* The listener accepts connection c and starts accept(reader, writer);
\* connections are numbered in the order they arrive.
Connect(c) ==
  /\ acc[c].pc = "idle"
  /\ \A d \in 1..(c - 1) : acc[d].pc # "idle"
  /\ acc' = [acc EXCEPT ![c].pc = "handshake"]
  /\ ev' = NoEv
  /\ UNCHANGED <<sessions, connUp, snd, loop, plan, prs, papi>>

\* The handshake line arrived (lines 71-84, up to the await of the heartbeat).
AcceptHandshake(c) ==
  /\ acc[c].pc = "handshake"
  /\ \E f \in FrameKinds :
       LET h == handshake(f) IN
       acc' = [acc EXCEPT ![c] =
                 IF h.exc # "" THEN [@ EXCEPT !.pc = "returned", !.frame = f]
                 ELSE IF "executors" \notin DOMAIN h.val
                      THEN [@ EXCEPT !.pc = "raised", !.frame = f]
                      ELSE [@ EXCEPT !.pc = "heartbeat", !.frame = f, !.hb = 1]]
  /\ ev' = NoEv
  /\ UNCHANGED <<sessions, connUp, snd, loop, plan, prs, papi>>

\* generate_number(size=6) draws a number at random.  Ids are only compared
\* for equality, so the n-th distinct number drawn is named n: a draw repeats
\* an id drawn before or is the next new one.
DrawnIds == {acc[c].s.id : c \in {d \in Conns : acc[d].created = 1}}
generate_number == {i \in SessionIds : i <= Cardinality(DrawnIds) + 1}

\* handle_heartbeat returned the agent (lines 84-87, up to send's first
\* suspension), or raised.
AcceptRegister(c) ==
  /\ acc[c].pc = "heartbeat"
  /\ \/ /\ acc' = [acc EXCEPT ![c].pc = "raised"]
        /\ ev' = NoEv
        /\ UNCHANGED <<sessions, snd>>
     \/ \E id \in generate_number, paw \in Paws :
          LET new == Session(id, paw, c)
              ss  == append(sessions, new)
              s   == send_begin(ss, id) IN
          /\ sessions' = ss
          /\ snd' = [snd EXCEPT ![c] = s]
          /\ acc' = [acc EXCEPT ![c] = [@ EXCEPT !.pc = "send1", !.s = new, !.created = 1,
                                                 !.regs = 1, !.sends = 1]]
          /\ ev' = NoEv
  /\ UNCHANGED <<connUp, loop, plan, prs, papi>>

\* -------------------------------------------------- the return of a send
\* send returned res to task k, which runs on to its next suspension:
\*   accept, first send   - lines 90-91: the second append and send;
\*   accept, second send  - accept returns;
\*   beacon loop          - lines 40-42: the result is reported (await);
\*   any other caller     - nothing more.
Return(k, res, reply, exc) ==
  LET e  == [op |-> "send_return", who |-> k, sid |-> snd[k].sid, res |-> res, reply |-> reply,
             exc |-> exc, nw |-> snd[k].nw, reg |-> snd[k].reg,
             beacon |-> IF k = LoopTask THEN beacon(InstrId(loop), res) ELSE NoBeacon]
      ss == send_registry(sessions, snd[k].sid, res) IN
  /\ ev' = e
  /\ IF k \in Conns /\ acc[k].pc = "send1"
     THEN LET ss2 == append(ss, acc[k].s)
              s   == send_begin(ss2, acc[k].s.id) IN
          /\ sessions' = ss2
          /\ snd' = [snd EXCEPT ![k] = s]
          /\ acc' = [acc EXCEPT ![k] = [@ EXCEPT !.pc = "send2", !.regs = 2, !.sends = 2]]
          /\ UNCHANGED loop
     ELSE /\ sessions' = ss
          /\ snd' = [snd EXCEPT ![k] = Idle]
          /\ acc' = IF k \in Conns THEN [acc EXCEPT ![k].pc = "returned"] ELSE acc
          /\ loop' = IF k = LoopTask
                      THEN [loop EXCEPT !.pc = "report", !.rep = @ + 1]
                      ELSE loop

\* The handler of a send that failed before writing (line 112-114).
SendExcept(k) ==
  /\ snd[k].pc = "except"
  /\ Return(k, send_except(snd[k].exc), "none", snd[k].exc)
  /\ UNCHANGED <<connUp, plan, prs, papi>>

\* The drain of the probe byte raised, or the settle delay elapsed and the
\* command line is written (lines 104-107, up to the await of its drain).
SendSettle(k) ==
  /\ snd[k].pc = "settle"
  /\ IF connUp[snd[k].w]
     THEN /\ snd' = [snd EXCEPT ![k] = send_command(@)]
          /\ ev' = NoEv
          /\ UNCHANGED <<sessions, acc, loop>>
     ELSE Return(k, send_except("ConnectionResetError"), "none", "ConnectionResetError")
  /\ UNCHANGED <<connUp, plan, prs, papi>>

\* await writer.drain() after the command line, then the response is read
\* and decoded (lines 107-111).
SendFinish(k) ==
  /\ snd[k].pc = "drain2"
  /\ IF connUp[snd[k].w]
     THEN \E reply \in ReplyKinds :
            Return(k, send_decode(attempt_connection(reply)), reply, send_failure(reply))
     ELSE Return(k, send_except("ConnectionResetError"), "none", "ConnectionResetError")
  /\ UNCHANGED <<connUp, plan, prs, papi>>

\* Some other caller of the public send method, with any session id.
ExtSend(sid) ==
  /\ snd[ExtCaller].pc = "idle"
  /\ LET s == send_begin(sessions, sid) IN
     /\ snd' = [snd EXCEPT ![ExtCaller] = s]
     /\ ev' = NoEv
  /\ UNCHANGED <<sessions, connUp, acc, loop, plan, prs, papi>>

\* The peer of connection c goes away: writes to c fail from now on.
PeerClose(c) ==
  /\ acc[c].pc # "idle"
  /\ connUp[c]
  /\ connUp' = [connUp EXCEPT ![c] = FALSE]
  /\ ev' = NoEv
  /\ UNCHANGED <<sessions, acc, snd, loop, plan, prs, papi>>

\* -------------------------------------------------------------- beacon loop
\* The top of `while True` (line 29-31): the refresh sweep, then the first
\* session of the cycle, up to the await of its heartbeat.
LoopCycle ==
  /\ loop.pc \in {"start", "sleep20"}
  /\ LET ss == refresh(sessions, connUp) IN
     /\ sessions' = ss
     /\ loop' = loop_advance(ss, LoopRest("iter"))
     /\ ev' = [NoEv EXCEPT !.op = "refreshed", !.nw = Len(refresh_probes(sessions, 0, connUp))]
  /\ UNCHANGED <<connUp, acc, snd, plan, prs, papi>>

\* handle_heartbeat(paw=session.paw) returned n instructions, or raised
\* (line 31 is outside the try: the loop task ends).
LoopFetch ==
  /\ loop.pc = "fetch"
  /\ \/ /\ loop' = [loop EXCEPT !.pc = "dead"]
        /\ ev' = NoEv
        /\ UNCHANGED snd
     \/ \E n \in 0..MaxInstr :
          LET r == loop_continue(sessions, [loop EXCEPT !.left = n]) IN
          /\ loop' = r.lp
          /\ snd' = [snd EXCEPT ![LoopTask] = r.s]
          /\ ev' = NoEv
  /\ UNCHANGED <<sessions, connUp, acc, plan, prs, papi>>

\* handle_heartbeat(**beacon) returned and asyncio.sleep(instruction.sleep) is
\* awaited, or one of the two raised (caught at line 44).
LoopReport ==
  /\ loop.pc = "report"
  /\ \/ LET r == loop_reported(sessions, loop) IN
        /\ loop' = r.lp
        /\ snd' = [snd EXCEPT ![LoopTask] = r.s]
        /\ ev' = [NoEv EXCEPT !.op = "reported"]
     \/ \E e \in {"report_raised", "sleep_raised"} :
          LET r == loop_except(sessions, loop) IN
          /\ loop' = r.lp
          /\ snd' = [snd EXCEPT ![LoopTask] = r.s]
          /\ ev' = [NoEv EXCEPT !.op = e]
  /\ UNCHANGED <<sessions, connUp, acc, plan, prs, papi>>

\* The inter-instruction sleep elapsed.
LoopInstrSleep ==
  /\ loop.pc = "isleep"
  /\ LET r == loop_continue(sessions, loop) IN
     /\ loop' = r.lp
     /\ snd' = [snd EXCEPT ![LoopTask] = r.s]
     /\ ev' = [NoEv EXCEPT !.op = "slept"]
  /\ UNCHANGED <<sessions, connUp, acc, plan, prs, papi>>

\* The contact on its own: the listener's accept tasks and the beacon loop.
Next ==
  \/ \E c \in Conns : Connect(c)
  \/ \E c \in Conns : AcceptHandshake(c)
  \/ \E c \in Conns : AcceptRegister(c)
  \/ \E c \in Conns : PeerClose(c)
  \/ \E k \in Tasks : SendSettle(k)
  \/ \E k \in Tasks : SendFinish(k)
  \/ LoopCycle
  \/ LoopFetch
  \/ LoopReport
  \/ LoopInstrSleep

Spec == Init /\ [][Next]_vars

\* The contact some time after start: the agent of an earlier connection,
\* Resident, has registered and its accept has returned, having appended its
\* Session at line 86 and at line 90.  Its session id is one that is not drawn
\* again, and its connection stays up.
Resident        == MaxConns + 2
ResidentSession == Session(MaxIds + 1, "paw", Resident)

InitRegistered ==
  /\ sessions = <<ResidentSession, ResidentSession>>
  /\ connUp = [c \in Conns \cup {Resident} |-> TRUE]
  /\ acc = [c \in Conns \cup {Resident} |->
              IF c = Resident
              THEN [pc |-> "returned", frame |-> "profile", s |-> ResidentSession,
                    hb |-> 1, created |-> 1, regs |-> 2, sends |-> 2]
              ELSE [pc |-> "idle", frame |-> "none", s |-> NoSession,
                    hb |-> 0, created |-> 0, regs |-> 0, sends |-> 0]]
  /\ snd = [k \in Callers |-> Idle]
  /\ loop = LoopRest("start")
  /\ ev = NoEv
  /\ plan = NoPlanner /\ prs = NoParser /\ papi = NoApi

SpecRegistered == InitRegistered /\ [][Next]_vars

\* The contact together with another caller of its public send method.
NextApi ==
  \/ Next
  \/ \E sid \in CallIds : ExtSend(sid)
  \/ SendExcept(ExtCaller)
  \/ SendSettle(ExtCaller)
  \/ SendFinish(ExtCaller)

SpecApi == Init /\ [][NextApi]_vars

\* ---------------------------------------------------------------- planner
\* planning_svc.execute_planner: the bucket next_bucket names is called, again
\* and again until next_bucket is None (line 11) or a stopping condition is met.
execute_planner ==
  /\ plan.pc = "ready" /\ plan.next_bucket = "pentatomic"
  /\ ~plan.stopping_condition_met
  /\ plan' = [plan EXCEPT !.pc = "called"]
  /\ UNCHANGED <<sessions, connUp, acc, snd, loop, ev, prs, papi>>

\* A bucket that waits for its links even when it has none.
plan_finish_wait(p) == [p EXCEPT !.pc = "wait", !.waited = @ \o p.links_to_use]

\* A bucket that unsets next_bucket whenever it comes to its end.
plan_finish_unset(p) ==
  IF p.links_to_use # <<>>
  THEN [p EXCEPT !.pc = "wait", !.waited = @ \o p.links_to_use, !.next_bucket = "None"]
  ELSE [p EXCEPT !.pc = "ready", !.next_bucket = "None"]

\* Lines 48-55: the links applied are waited for, or next_bucket is unset and
\* the bucket returns.
plan_finish(p) ==
  IF p.links_to_use # <<>>
  THEN [p EXCEPT !.pc = "wait", !.waited = @ \o p.links_to_use]
  ELSE [p EXCEPT !.pc = "ready", !.next_bucket = "None"]

\* The for statement of line 33 takes the next agent and awaits get_links.
plan_next(p) ==
  IF p.i < p.nagents
  THEN [p EXCEPT !.i = @ + 1, !.pc = "get_links"]
  ELSE plan_finish(p)

\* A bucket that logs a collaborator's error and goes on with the next agent.
plan_raise_skip(p, e) == plan_next([p EXCEPT !.err = e, !.trace = <<>>, !.cands = {}])

\* A collaborator's error e leaves the bucket: nothing in pentatomic catches it.
plan_raise(p, e) == [p EXCEPT !.pc = "raised", !.err = e, !.trace = <<>>, !.cands = {}]

\* A list that keeps the last link id only.
links_assign(links, id) == <<id>>

\* links_to_use.append(applied_link_id) (line 39).
links_append(links, id) == Append(links, id)

\* pentatomic up to its first await (lines 28-34).
PlanEnter ==
  /\ plan.pc = "called"
  /\ plan' = plan_next([plan EXCEPT !.i = 0, !.links_to_use = <<>>, !.trace = <<>>,
                                    !.cands = {}, !.base = plan.nlinks,
                                    !.iters = @ + 1, !.by = <<>>])
  /\ UNCHANGED <<sessions, connUp, acc, snd, loop, ev, prs, papi>>

\* get_links raised (the bucket ends with the error), or returned candidates:
\* lines 35-38 up to the await of apply, or lines 43-46 and on to the next agent.
PlanGetLinks ==
  /\ plan.pc = "get_links"
  /\ \/ \E e \in Errors : plan' = [plan_raise(plan, e) EXCEPT !.thrown = e]
     \/ \E cands \in SUBSET Abilities :
          LET a    == plan.i
              step == get(plan.agent_steps, a, 0)
              r    == get_next_atomic_link(plan.ordering, cands, plan.agent_steps, a, step, <<>>)
              tr   == <<step>> \o r.writes IN
          IF r.link # "None"
          THEN /\ plan.nlinks < MaxLinks
               /\ plan' = [plan EXCEPT !.pc = "apply", !.agent_steps = r.steps, !.step = step,
                                       !.link = r.link, !.pos = r.pos, !.cands = cands,
                                       !.seen[a] = tr[Len(tr)], !.trace = tr]
          ELSE plan' = plan_next([plan EXCEPT !.agent_steps = pop(r.steps, a),
                                              !.exhausted = @ \cup {a}, !.cands = cands,
                                              !.seen[a] = tr[Len(tr)], !.trace = tr])
  /\ UNCHANGED <<sessions, connUp, acc, snd, loop, ev, prs, papi>>

\* operation.apply raised, or returned the link id: lines 39-42 and on to the
\* next agent.
PlanApply ==
  /\ plan.pc = "apply"
  /\ \/ \E e \in Errors : plan' = [plan_raise(plan, e) EXCEPT !.thrown = e]
     \/ LET a == plan.i IN
        plan' = plan_next([plan EXCEPT !.links_to_use = links_append(@, plan.nlinks + 1),
                                       !.nlinks = @ + 1, !.cands = {}, !.by = Append(@, a),
                                       !.applied[a][plan.link] = @ + 1,
                                       !.agent_steps = put(@, a, plan.step + 1),
                                       !.seen[a] = plan.step + 1,
                                       !.trace = <<plan.step + 1>>])
  /\ UNCHANGED <<sessions, connUp, acc, snd, loop, ev, prs, papi>>

\* wait_for_links_completion returned: the bucket returns (lines 50-51).
PlanWait ==
  /\ plan.pc = "wait"
  /\ plan' = [plan EXCEPT !.pc = "ready", !.trace = <<>>, !.cands = {}]
  /\ UNCHANGED <<sessions, connUp, acc, snd, loop, ev, prs, papi>>

\* An operation of any agents and any ordering, about to be planned.
InitPlanner ==
  /\ InitContact
  /\ \E ordering \in Orderings, n \in 0..MaxAgents : plan = Planner(ordering, n)
  /\ prs = NoParser /\ papi = NoApi

NextPlanner ==
  \/ execute_planner
  \/ PlanEnter
  \/ PlanGetLinks
  \/ PlanApply
  \/ PlanWait

SpecPlanner == InitPlanner /\ [][NextPlanner]_vars

\* A stopping condition of the operation is met while the planner runs
\* (stopping_condition_met, line 9, is set by the driver's caller).
Abort ==
  /\ plan.pc # "none" /\ ~plan.stopping_condition_met
  /\ plan' = [plan EXCEPT !.stopping_condition_met = TRUE]
  /\ UNCHANGED <<sessions, connUp, acc, snd, loop, ev, prs, papi>>

\* The planner of an operation that can be aborted at any time.
NextPlannerAbort ==
  \/ NextPlanner
  \/ Abort

SpecPlannerAbort == InitPlanner /\ [][NextPlannerAbort]_vars

\* ----------------------------------------------------------------- parser
\* The first parse of a blob.
ParseFirst ==
  /\ prs.pc = "new"
  /\ \E blob \in Blobs :
       LET r == parse(prs.self, blob) IN
       prs' = [prs EXCEPT !.pc = "first", !.self = r.self, !.blob = blob, !.out = r.facts,
                          !.raised = r.raised, !.n = 1]
  /\ UNCHANGED <<sessions, connUp, acc, snd, loop, ev, plan, papi>>

\* A parse of another blob in between: one piece, or nothing.
ParseOther ==
  /\ prs.pc = "first"
  /\ \E blob \in Pieces \cup {<<>>} :
       prs' = [prs EXCEPT !.pc = "other", !.self = parse(prs.self, blob).self, !.n = @ + 1]
  /\ UNCHANGED <<sessions, connUp, acc, snd, loop, ev, plan, papi>>

\* The first blob is parsed again.
ParseAgain ==
  /\ prs.pc \in {"first", "other"}
  /\ LET r == parse(prs.self, prs.blob) IN
     prs' = [prs EXCEPT !.pc = "again", !.self = r.self, !.out2 = r.facts,
                        !.raised2 = r.raised, !.n = @ + 1]
  /\ UNCHANGED <<sessions, connUp, acc, snd, loop, ev, plan, papi>>

InitParser ==
  /\ InitContact /\ plan = NoPlanner /\ papi = NoApi
  /\ \E strict \in BOOLEAN : prs = Parser(strict)

NextParser ==
  \/ ParseFirst
  \/ ParseOther
  \/ ParseAgain

SpecParser == InitParser /\ [][NextParser]_vars

\* ------------------------------------------------------------ planner API
\* delete_planner up to its first await (lines 117-150): the lookup, the
\* removal from ram and the call of find_file_path.
DeleteRequest(id) ==
  /\ papi.pc \in {"idle", "done"} /\ papi.n < MaxRequests
  /\ LET a == [papi EXCEPT !.id = id, !.planner = 0, !.ram0 = papi.ram, !.resp = "",
                           !.failed = "", !.n = @ + 1]
         planner == next_planner(papi.ram, id) IN
     papi' = IF id = 0 THEN [a EXCEPT !.pc = "done", !.resp = "HTTPBadRequest"]
             ELSE IF planner = 0 THEN [a EXCEPT !.pc = "done", !.resp = "HTTPNotFound"]
             ELSE [a EXCEPT !.pc = "find_file", !.planner = planner,
                            !.ram = remove(papi.ram, planner)]
  /\ UNCHANGED <<sessions, connUp, acc, snd, loop, ev, plan, prs>>

\* find_file_path returned or raised; lines 151-220 up to the await of
\* save_state: the YAML file is read, the module file it names and the YAML
\* file are removed.  Any of these calls can raise.
DeleteFiles ==
  /\ papi.pc = "find_file"
  /\ \E e \in FileErrors \cup {""}, has_module \in BOOLEAN :
       LET id == papi.id IN
       papi' =
         IF e = "find_file_path" THEN api_error(papi, e)
         ELSE IF id \notin papi.yml THEN [papi EXCEPT !.pc = "save"]
         ELSE IF e = "read" THEN api_error(papi, e)
         ELSE IF has_module /\ id \in papi.mods
              THEN IF e = "remove_module" THEN api_error(papi, e)
                   ELSE IF e = "remove_file"
                        THEN api_error([papi EXCEPT !.mods = @ \ {id}], e)
                        ELSE [papi EXCEPT !.pc = "save", !.mods = @ \ {id}, !.yml = @ \ {id}]
              ELSE IF e = "remove_file" THEN api_error(papi, e)
                   ELSE [papi EXCEPT !.pc = "save", !.yml = @ \ {id}]
  /\ UNCHANGED <<sessions, connUp, acc, snd, loop, ev, plan, prs>>

\* save_state returned (lines 222-228) or raised.
DeleteSave ==
  /\ papi.pc = "save"
  /\ \/ papi' = api_error(papi, "save_state")
     \/ papi' = [papi EXCEPT !.pc = "done", !.resp = "success"]
  /\ UNCHANGED <<sessions, connUp, acc, snd, loop, ev, plan, prs>>

\* The API over any planners and any files.
InitApi ==
  /\ InitContact /\ plan = NoPlanner /\ prs = NoParser
  /\ \E ram \in PlannerLists, yml \in SUBSET PlannerIds, mods \in SUBSET PlannerIds :
       papi = Api(ram, yml, mods)

NextDelete ==
  \/ \E id \in RequestIds : DeleteRequest(id)
  \/ DeleteFiles
  \/ DeleteSave

SpecDelete == InitApi /\ [][NextDelete]_vars

\* ------------------------------------------------------------------ claims
\* A step of the beacon loop at the top of its cycle: the refresh sweep.
RefreshStep ==
  /\ loop.pc \in {"start", "sleep20"}
  /\ acc' = acc /\ snd' = snd /\ connUp' = connUp

FailureTuple(res) == ~res.raised /\ res.status = 1 /\ res.pwd = "~$ " /\ res.time = ""

\* C1: at most one send is in flight per session: no two tasks among the
\* accept tasks and the beacon loop are inside send on the same session id.
C1_OneSendInFlight ==
  \A k1, k2 \in Tasks :
    (k1 # k2 /\ InFlight(k1) /\ InFlight(k2)) => snd[k1].sid # snd[k2].sid

\* C2: refresh never writes its probe to a session while a send on that
\* session is between its probe write and its return.
C2_RefreshExcludesSend ==
  [][RefreshStep =>
       \A i \in 1..Len(sessions) : \A k \in Tasks :
         ~(InFlight(k) /\ snd[k].sid = sessions[i].id)]_vars

\* C3: an accept that completed a successful handshake has created one
\* Session, appended one registry entry and sent to the new session once.
C3_OneRegistration ==
  \A c \in Conns :
    (acc[c].pc = "returned" /\ acc[c].created = 1) => (acc[c].regs = 1 /\ acc[c].sends = 1)

\* C4: a send the peer answered with a well-formed response frame returns
\* the status, pwd, response and agent_reported_time (or "") of that frame.
C4_ReturnsFrame ==
  (ev.op = "send_return" /\ ev.reply \in {"frame", "frame_time"}) =>
    LET f == ReplyText(ev.reply).obj IN
    ev.res = Result(f.status, f.pwd, f.response,
                    IF ev.reply = "frame_time" THEN f.agent_reported_time ELSE "")

\* C5: send never raises; whenever something failed inside it (lookup, write,
\* read, timeout, decoding) it returns status 1, prompt "~$ " and time "".
C5_SendNeverRaises ==
  ev.op = "send_return" =>
    (~ev.res.raised /\ (ev.exc # "" => FailureTuple(ev.res)))

C5_Witness ==
  ev.op = "send_return" /\ ev.exc = "ConnectionResetError" /\ FailureTuple(ev.res)

\* C6: a send called with a session id that is not in the registry returns
\* the failure tuple, has written nothing and leaves the registry as it was.
C6_UnregisteredSend ==
  [][/\ \A k \in Callers :
          (snd[k].pc = "idle" /\ snd'[k].pc # "idle" /\ ~snd'[k].reg) =>
            (snd'[k].nw = 0 /\ (k \notin Conns => sessions' = sessions))
     /\ (ev'.op = "send_return" /\ ~ev'.reg) =>
          (FailureTuple(ev'.res) /\ ev'.nw = 0 /\ sessions' = sessions)]_vars

C6_Witness ==
  ev.op = "send_return" /\ ~ev.reg /\ Len(sessions) > 0 /\ FailureTuple(ev.res)

\* C7: no step but the refresh sweep removes a registry entry; in
\* particular no send does, whatever its outcome.
C7_OnlyRefreshRemoves ==
  [][IsPrefix(sessions, sessions') \/ (RefreshStep /\ sessions' = refresh(sessions, connUp))]_vars

C7_Witness ==
  ev.op = "send_return" /\ ev.res.status = 1 /\ ev.reply = "silent" /\ HasId(sessions, ev.sid)

\* C8: a Session that refresh removed is removed by one removal and is not
\* in the registry again afterwards (its connection makes no new handshake).
C8_RemovedOnce ==
  [][\A c \in Conns :
       /\ Count(sessions, c) - Count(sessions', c) <= 1
       /\ (acc[c].regs >= 1 /\ Count(sessions, c) = 0) => Count(sessions', c) = 0]_vars

\* C9: no two registry entries have the same session id.
C9_UniqueIds ==
  \A i, j \in 1..Len(sessions) : i # j => sessions[i].id # sessions[j].id

\* C10: an accept whose handshake line is not JSON has returned without
\* raising, created no Session, called neither the heartbeat nor send, and
\* its step left the registry unchanged.
C10_BadHandshake ==
  [][\A c \in Conns :
       acc'[c].frame = "garbage" =>
         /\ acc'[c].pc = "returned"
         /\ acc'[c].hb = 0 /\ acc'[c].created = 0 /\ acc'[c].sends = 0 /\ acc'[c].regs = 0
         /\ snd'[c] = Idle
         /\ Count(sessions', c) = 0
         /\ (acc[c] # acc'[c] => sessions' = sessions)]_vars

C10_Witness ==
  \E c \in Conns : acc[c].frame = "garbage" /\ acc[c].pc = "returned" /\ acc[c].hb = 0

\* The loop is inside the for statement over the registry.
IterPcs == {"fetch", "send", "report", "isleep"}

\* The loop passes an instruction to send in this step.
LoopSendStarts == loop.pc # "send" /\ loop'.pc = "send"

\* C11: an exception raised while the loop processes an instruction (its
\* report or its sleep raises) aborts that instruction only: the next
\* instruction of the session is sent if one is left, otherwise the next
\* session of the registry is fetched, otherwise the cycle ends in its sleep;
\* the loop does not end.
C11_ExceptionAbortsOneInstruction ==
  [][(loop.pc = "report" /\ ev'.op \in {"report_raised", "sleep_raised"}) =>
       IF loop.left > 0
       THEN /\ loop'.pc = "send" /\ loop'.cur = loop.cur /\ loop'.it = loop.it
            /\ loop'.left = loop.left - 1
            /\ snd'[LoopTask].pc # "idle" /\ snd'[LoopTask].sid = loop.cur.id
       ELSE IF loop.it < Len(sessions)
            THEN loop'.pc = "fetch" /\ loop'.it = loop.it + 1 /\ loop'.cur = sessions[loop.it + 1]
            ELSE loop'.pc = "sleep20"]_vars

C11_Witness ==
  ev.op = "report_raised" /\ loop.pc = "send" /\ snd[LoopTask].pc # "idle"

\* C12 as stated: the send of an instruction that is not the first of its
\* session starts only in the step in which the sleep of the instruction
\* before it elapsed.
C12_SendAfterSleep ==
  [][(LoopSendStarts /\ loop.pc # "fetch") => (loop.pc = "isleep" /\ ev'.op = "slept")]_vars

\* C12 amended: the send of an instruction that is not the first of its session
\* starts only after the send of the instruction before it returned and its
\* result was passed to the report once, and only when the sleep elapsed or
\* the report or the sleep raised; after a report that returned it starts
\* only when the sleep elapsed or raised.
C12_Amended ==
  [][(LoopSendStarts /\ loop.pc # "fetch") =>
       /\ snd[LoopTask].pc = "idle" /\ loop.sent = 1 /\ loop.rep = 1
       /\ \/ loop.pc = "isleep" /\ ev'.op = "slept"
          \/ loop.pc = "report" /\ ev'.op \in {"report_raised", "sleep_raised"}]_vars

C12_Witness ==
  ev.op = "slept" /\ loop.pc = "send" /\ loop.sent = 1 /\ loop.rep = 0

\* C13: every fetched instruction is taken once, in turn: each is passed to send
\* once and never again, at most one result is reported for it, and the session
\* is left only when none is left.
C13_ConsumedOnce ==
  [][/\ loop'.sent <= 1 /\ loop'.rep <= 1
     /\ (LoopSendStarts /\ loop.pc # "fetch") => loop'.left = loop.left - 1
     /\ (loop.pc \in {"report", "isleep"} /\ loop'.pc \in {"send", "fetch", "sleep20"}) =>
          (loop.sent = 1 /\ loop.rep = 1)
     /\ (loop.pc \in {"report", "isleep"} /\ loop'.pc \in {"fetch", "sleep20"}) =>
          loop.left = 0]_vars

C13_Witness ==
  loop.pc = "isleep" /\ loop.left = 1 /\ loop.sent = 1 /\ loop.rep = 1

\* C14: when the send of an instruction returns the failure tuple, the loop
\* reports a result with that instruction's id, status 1 and the encoded error
\* text, and is then awaiting that report.
C14_FailureReported ==
  (ev.op = "send_return" /\ ev.who = LoopTask /\ FailureTuple(ev.res)) =>
    /\ loop.pc = "report" /\ loop.rep = 1
    /\ ev.beacon = [id |-> InstrId(loop), status |-> 1, output |-> encode_string(ev.res.response)]
    /\ ev.res.response = ev.exc

C14_Witness ==
  /\ ev.op = "send_return" /\ ev.who = LoopTask /\ FailureTuple(ev.res)
  /\ ev.beacon.status = 1 /\ loop.pc = "report"

\* C15: the beacon loop never ends.
C15_LoopNeverEnds == loop.pc # "dead"

\* C16: while the loop is inside its iteration of the registry, the sessions
\* it has taken are the registry's entries up to the iterator's index, no entry
\* is removed, and the iteration ends only when the index is the registry's
\* length: an entry appended meanwhile shifts nothing and is taken too.
C16_IterationSafe ==
  [][/\ loop'.pc \in IterPcs => loop'.visited = SubSeq(sessions', 1, loop'.it)
     /\ loop.pc \in IterPcs => IsPrefix(sessions, sessions')
     /\ (loop.pc \in IterPcs /\ loop'.pc = "sleep20") => loop.it = Len(sessions)]_vars

C16_Witness ==
  /\ ev.op = "send_return" /\ ev.who \in Conns /\ acc[ev.who].pc = "send2"
  /\ loop.pc \in IterPcs /\ loop.it = 1 /\ Len(sessions) = 2

\* A sequence of cursor values in which no value is below the one before it.
Nondecreasing(q) == \A k \in 1..(Len(q) - 1) : q[k] <= q[k + 1]

\* C17: when apply returns for an agent whose selection matched position p of
\* atomic_ordering, the agent's cursor is p + 1.
C17_CursorAfterSelection ==
  [][(plan.pc = "apply" /\ plan'.pc \notin {"apply", "raised"}) =>
       get(plan'.agent_steps, plan.i, 0) = plan.pos + 1]_vars

\* C18: the values the planner reads from and writes to the cursor of an agent
\* never decrease: those of a step, in their order, start at or above the last
\* value read or written before.
C18_CursorMonotone ==
  [][plan.pc \in {"get_links", "apply"} =>
       Nondecreasing(<<plan.seen[plan.i]>> \o plan'.trace)]_vars

\* C19: no link is selected and applied for an agent whose selection returned
\* None in an earlier bucket iteration.
C19_NoLinkAfterExhaustion == plan.pc = "apply" => plan.i \notin plan.exhausted

\* C20: the links applied for an agent and an ability id are never more than
\* the occurrences of that id in atomic_ordering.
C20_AtMostOccurrences ==
  \A a \in 1..plan.nagents, ab \in Abilities :
    plan.applied[a][ab] <= Occurrences(plan.ordering, ab)

\* The bucket is running, and the step in which it returns to the driver.
InBucket == plan.pc \in {"called", "get_links", "apply", "wait"}
BucketReturns == InBucket /\ plan'.pc = "ready"

\* The link ids apply returned in the bucket invocation of planner p, in order.
InvIds(p) == [k \in 1..(p.nlinks - p.base) |-> p.base + k]

\* How often x is in the sequence q, and the least element of a set of numbers.
CountIn(q, x) == Cardinality({k \in 1..Len(q) : q[k] = x})
Min(S) == CHOOSE x \in S : \A y \in S : x <= y

\* C21: with no agent, the first bucket invocation returns with next_bucket
\* unset, and get_links, apply and wait_for_links_completion are never awaited.
C21_ZeroAgents ==
  [][plan.nagents = 0 =>
       /\ plan'.pc \in {"ready", "called"} /\ plan'.nlinks = 0 /\ plan'.waited = <<>>
       /\ plan.pc = "called" => (plan'.pc = "ready" /\ plan'.next_bucket = "None")]_vars

C21_Witness ==
  plan.nagents = 0 /\ plan.ordering # <<>> /\ plan.pc = "ready" /\ plan.next_bucket = "None"

\* C22: a bucket invocation that returns has unset next_bucket exactly when it
\* applied no link, and otherwise left it as it was; next_bucket changes in no
\* other step.
C22_UnsetIffNoLink ==
  [][/\ BucketReturns =>
          /\ plan'.next_bucket = "None" <=> plan'.nlinks = plan'.base
          /\ plan'.next_bucket # "None" => plan'.next_bucket = plan.next_bucket
     /\ plan'.next_bucket # plan.next_bucket =>
          (BucketReturns /\ plan'.nlinks = plan'.base)]_vars

C22_Witness ==
  plan.pc = "ready" /\ plan.nlinks > plan.base /\ plan.next_bucket = "pentatomic"

\* C23: a bucket invocation that applied links returns only from its await of
\* wait_for_links_completion, which it called once, with the ids of exactly
\* the links it applied.
C23_WaitBeforeReturn ==
  [][/\ (plan.pc # "wait" /\ plan'.pc = "wait") =>
          (plan'.links_to_use = InvIds(plan') /\ plan'.links_to_use # <<>>)
     /\ (BucketReturns /\ plan.pc # "called" /\ plan.nlinks > plan.base) =>
          /\ plan.pc = "wait" /\ plan.links_to_use = InvIds(plan)
          /\ \A k \in 1..Len(plan.links_to_use) :
               CountIn(plan.waited, plan.links_to_use[k]) = 1]_vars

C23_Witness ==
  plan.pc = "wait" /\ Len(plan.links_to_use) = 2 /\ plan.waited = plan.links_to_use

\* C24: when a bucket invocation has ended, by returning or by an error, every
\* link id apply returned has been passed to wait_for_links_completion once.
C24_AppliedLinksWaited ==
  plan.pc \in {"ready", "raised"} =>
    \A id \in 1..plan.nlinks : CountIn(plan.waited, id) = 1

\* C25: the step in which get_links or apply raises ends the bucket with that
\* error and changes nothing else of the planner; after it the planner makes
\* no step.
C25_ErrorPropagates ==
  [][/\ (plan.thrown = "" /\ plan'.thrown # "") =>
          /\ plan.pc \in {"get_links", "apply"}
          /\ plan'.pc = "raised" /\ plan'.err = plan'.thrown
          /\ plan'.next_bucket = plan.next_bucket /\ plan'.agent_steps = plan.agent_steps
          /\ plan'.i = plan.i /\ plan'.nlinks = plan.nlinks /\ plan'.waited = plan.waited
     /\ plan.pc = "raised" => plan' = plan]_vars

C25_Witness ==
  plan.pc = "raised" /\ plan.err = "KeyError" /\ plan.i = 2 /\ plan.nlinks = 1

\* C26: once a stopping condition is met, apply is not called again.
C26_NoLinkAfterAbort ==
  [][plan.stopping_condition_met => ~(plan.pc # "apply" /\ plan'.pc = "apply")]_vars

\* C30: when get_links returns, the link selected is the candidate of the least
\* position, from the cursor on, whose ability id is a candidate; when there is
\* no such position no link is selected.
C30_LeastCandidatePosition ==
  [][(plan.pc = "get_links" /\ plan'.pc # "raised") =>
       LET step == get(plan.agent_steps, plan.i, 0)
           M    == {q \in step..(Len(plan.ordering) - 1) : plan.ordering[q + 1] \in plan'.cands} IN
       IF M = {}
       THEN plan'.pc # "apply" /\ plan'.nlinks = plan.nlinks /\ plan.i \in plan'.exhausted
       ELSE /\ plan'.pc = "apply" /\ plan'.pos = Min(M)
            /\ plan'.link = plan.ordering[Min(M) + 1] /\ plan'.link \in plan'.cands]_vars

C30_Witness ==
  /\ plan.pc = "apply" /\ plan.pos = plan.step + 1 /\ plan.step > 0
  /\ plan.ordering[plan.step] \in plan.cands /\ plan.ordering[plan.step] # plan.link


\* A dotted quad: four groups of one to three digits between dots, each
\* writing a number of 0..255.
ValidQuad(v) ==
  LET o == split(v, <<>>) IN
  /\ Len(o) = 4
  /\ \A k \in 1..4 : /\ Len(o[k]) \in 1..3
                     /\ \A j \in 1..Len(o[k]) : IsDigit(o[k][j])
                     /\ NatOf(o[k]) <= 255

\* The Facts the caller of the parser holds.
Yielded == {prs.out[k] : k \in 1..Len(prs.out)} \cup {prs.out2[k] : k \in 1..Len(prs.out2)}

\* No token the pattern finds in the blob is a dotted quad.
Malformed(blob) ==
  LET ips == findall(blob, 1) IN \A k \in 1..Len(ips) : ~ValidQuad(ips[k])

\* C27: every Fact the IP parser yields has the trait host.ip.address and a
\* value that is a dotted quad with octets in 0..255 and none of 0.0.0.0,
\* 127.0.0.1 and 255.255.0.0.
C27_FactsAreValidAddresses ==
  \A f \in Yielded :
    /\ f.trait = "host.ip.address"
    /\ ValidQuad(f.value)
    /\ f.value \notin Denylist

\* A blob was parsed that holds more address tokens than Facts were yielded.
C27_Witness ==
  /\ prs.pc = "first"
  /\ Len(prs.out) >= 1
  /\ Len(findall(prs.blob, 1)) > Len(prs.out)

C29_MalformedYieldsNothing ==
  (prs.pc \in {"first", "other", "again"} /\ Malformed(prs.blob))
    => /\ prs.out = <<>> /\ prs.raised = ""
       /\ prs.out2 = <<>> /\ prs.raised2 = ""

\* A blob was parsed whose only tokens have an octet out of range.
C29_Witness ==
  /\ prs.pc = "first"
  /\ findall(prs.blob, 1) # <<>>
  /\ Malformed(prs.blob)
  /\ prs.out = <<>>

C32_OneCommandPerSend == ev.op = "send_return" => ev.nw = 2

\* C32 amended: a send writes the probe byte first, the command line only
\* after the settle delay and only once, and starts to read the response only
\* after the drain of the command line; a send that returns from the read has
\* written one probe byte and one command line, a send that failed before has
\* written no command line.
C32_Amended ==
  [][\A k \in Callers :
       /\ (snd'[k] # snd[k] /\ snd'[k].pc = "settle") => snd'[k].nw = 1
       /\ (snd'[k] # snd[k] /\ snd'[k].pc = "drain2") =>
            (snd[k].pc = "settle" /\ snd[k].nw = 1 /\ snd'[k].nw = 2)
       /\ (ev'.op = "send_return" /\ ev'.who = k) =>
            /\ ev'.nw = snd[k].nw /\ ev'.nw <= 2
            /\ ev'.reply # "none" => (snd[k].pc = "drain2" /\ ev'.nw = 2)
            /\ snd[k].pc # "drain2" => (ev'.reply = "none" /\ ev'.nw <= 1)]_vars

\* A send returned from its read of the response.
C32_Witness ==
  ev.op = "send_return" /\ ev.reply = "frame" /\ ev.nw = 2 /\ ev.who = LoopTask

\* The Session of connection c has lost an entry to a refresh: accept appended
\* more entries for it than the registry holds (only refresh removes entries).
Removed(c) == Count(sessions, c) < acc[c].regs

\* C33: a cycle takes its first session from the registry as its refresh left
\* it, and the session the loop fetches instructions for or sends to is never
\* one that a refresh has removed, in that cycle or an earlier one.
C33_RemovedNeverFetched ==
  [][/\ (loop.pc \in {"start", "sleep20"} /\ loop'.pc = "fetch") =>
          (sessions' = refresh(sessions, connUp) /\ loop'.cur = sessions'[1])
     /\ loop'.pc \in IterPcs => ~Removed(loop.cur.writer)']_vars

\* C34: an accept whose handshake failed after the decoding (the profile has no
\* executors field, or the heartbeat raised) has not raised: it returned, and
\* it registered nothing.
C34_HandshakeErrorsSilent ==
  \A c \in Conns :
    /\ acc[c].pc # "raised"
    /\ (acc[c].pc = "returned" /\ acc[c].created = 0) =>
         (acc[c].regs = 0 /\ Count(sessions, c) = 0)

\* C35: the planner is driven through at most n + 1 bucket invocations, n the
\* length of atomic_ordering.
C35_TerminatesInTime ==
  plan.pc # "none" => plan.iters <= Len(plan.ordering) + 1

\* C36: in one bucket invocation at most one link is applied for an agent, and
\* the link applied for an agent is one of the candidates get_links returned
\* for that agent just before, in the same invocation.
C36_OneCandidatePerAgent ==
  [][/\ \A a \in 1..plan'.nagents : CountIn(plan'.by, a) <= 1
     /\ Len(plan'.by) = Len(plan'.links_to_use)
     /\ plan'.pc = "apply" =>
          (plan.pc = "get_links" /\ plan'.link \in plan'.cands /\ plan'.i = plan.i)
     /\ plan'.nlinks # plan.nlinks =>
          /\ plan.pc = "apply" /\ plan'.nlinks = plan.nlinks + 1
          /\ plan.link \in plan.cands
          /\ plan'.by = Append(plan.by, plan.i) /\ CountIn(plan.by, plan.i) = 0]_vars

\* In one invocation a link was applied for each of two agents.
C36_Witness ==
  plan.pc = "wait" /\ plan.by = <<1, 2>> /\ plan.iters = 1

\* C37: when delete_planner has ended in a not-found or an internal server
\* error response, ram['planners'] is as it was when the request came in.
C37_ErrorLeavesPlanners ==
  (papi.pc = "done" /\ papi.resp \in {"HTTPNotFound", "HTTPInternalServerError"}) =>
    papi.ram = papi.ram0

\* The dotted-quad tokens of a blob, from left to right: a token is four groups
\* of one to three digits between dots that starts and ends at a word boundary
\* and does not start inside the token before it.
QuadShaped(v) ==
  LET o == split(v, <<>>) IN
  /\ Len(o) = 4
  /\ \A k \in 1..4 : Len(o[k]) \in 1..3 /\ \A j \in 1..Len(o[k]) : IsDigit(o[k][j])

TokenEnds(blob, i) ==
  {e \in i..Len(blob) :
     /\ Boundary(blob, i) /\ Boundary(blob, e + 1)
     /\ IsDigit(blob[i]) /\ IsDigit(blob[e])
     /\ QuadShaped(SubSeq(blob, i, e))}

RECURSIVE TokensFrom(_, _)
TokensFrom(blob, i) ==
  IF i > Len(blob) THEN <<>>
  ELSE IF TokenEnds(blob, i) # {}
       THEN LET e == Min(TokenEnds(blob, i)) IN <<SubSeq(blob, i, e)>> \o TokensFrom(blob, e + 1)
       ELSE TokensFrom(blob, i + 1)

\* An IPv4 literal the ipaddress module in use accepts: octets of 0..255, and
\* under a strict one no octet of several digits that starts with 0.
ValidLiteral(v, strict) ==
  /\ ValidQuad(v)
  /\ strict => \A k \in 1..4 : LET o == split(v, <<>>)[k] IN ~(Len(o) > 1 /\ o[1] = "0")

\* C38: the values of the Facts a parse yields are the dotted-quad tokens of
\* the blob that are valid literals and not denylisted, in the order of the
\* blob and as often as they are in it.
C38_OutputIsFilteredTokens ==
  prs.pc \in {"first", "other", "again"} =>
    /\ prs.raised = ""
    /\ [k \in 1..Len(prs.out) |-> prs.out[k].value] =
         SelectSeq(TokensFrom(prs.blob, 1),
                   LAMBDA t : ValidLiteral(t, prs.self.strict) /\ t \notin Denylist)

\* A blob with the same address twice gave two Facts of that address.
C38_Witness ==
  prs.pc = "first" /\ Len(prs.out) = 2 /\ prs.out[1] = prs.out[2]

====
